---- MODULE Spec2Model ----
(***************************************************************************)
(* Model of bin/ch_fuse.c (Charliecloud SquashFUSE glue).                  *)
(*                                                                         *)
(* Spec / LiveSpec : the life of the process that calls sq_mount: the      *)
(*   setup steps of sq_mount, the fork into worker (child) and service     *)
(*   process (parent), SIGCHLD delivery to sq_end, exit() processing with  *)
(*   the exit handler sq_clean.                                            *)
(* RemountSpec : Spec, with the process calling sq_mount again after it    *)
(*   returned.                                                             *)
(* ImgSpec : imgdir_p applied to one path.                                 *)
(***************************************************************************)
EXTENDS Integers, Sequences, FiniteSets, TLC

VARIABLES
  mountdir,     \* argument of sq_mount: the requested mount directory
  dirState,     \* the mount directory on disk: "absent" | "dir" | "blocked"
  pc,           \* position of the original (service) process
  sq,           \* the global struct squash: [mountpt, session, ll]
  imgOpen,      \* the image handle returned by sqfs_ll_open is live
  fsMounted,    \* the FUSE file system is mounted on the mount point
  sigchld,      \* disposition of SIGCHLD: "SIG_DFL" | "sq_end"
  fuseSig,      \* libfuse signal handlers installed on the session
  atexitFns,    \* exit handlers still to be run by exit(), last registered last
  worker,       \* child process: "none" | "forked" | "running" | "stopped"
                \*   | "exiting" (it called exit) | "exited"
  childSq,      \* the child's copy of sq, taken by fork
  child,        \* what else the child inherits by fork, and what it ran
  workerRet,    \* what sq_mount returned in the child (NULL before it returns)
  svcRet,       \* what sq_mount returned in the parent (NULL while it has not)
  sigPending,   \* a SIGCHLD is pending for the service process
  sigBlocked,   \* SIGCHLD is blocked (its handler is running)
  exitCalls,    \* who called exit(), in order: "fatal" | "sq_end" | "caller"
  exitStatus,   \* status given to the latest exit()
  killed,       \* the process was ended by a fault instead of _exit
  msg,          \* the fatal message printed ("" when none)
  hist,         \* record of what happened (calls made, outcomes seen)
  \* ---- imgdir_p ----
  ipc,          \* position inside imgdir_p
  ftype,        \* what the path is: "nostat" | "dir" | "reg" | "fifo"
  fdata,        \* the file's bytes
  fopenOk,      \* whether fopen of the path succeeds
  stack,        \* the bytes on the stack right after char magic[4]
  magic,        \* char magic[4]
  iret,         \* the value imgdir_p returned (<<>> while it has not)
  imsg,         \* fatal message of imgdir_p
  nOpenFiles    \* FILE handles the process holds open

mvars == <<mountdir, dirState, pc, sq, imgOpen, fsMounted, sigchld, fuseSig,
           atexitFns, worker, childSq, child, workerRet, svcRet, sigPending,
           sigBlocked, exitCalls, exitStatus, killed, msg, hist>>
ivars == <<ipc, ftype, fdata, fopenOk, stack, magic, iret, imsg, nOpenFiles>>
vars == <<mvars, ivars>>

NULL == "NULL"

\* bound: how many stop/continue events of the worker are explored
MaxStops == 1

\* bound: how many calls of sq_mount one process makes (RemountSpec)
MaxCalls == 2

EXIT_FAILURE == 1

MountDirs == {"", "/mnt"}
LoopRets == {-1, 0, 15}
WorkerStatuses == {0, 1}
CallerStatuses == {0, 1}

\* struct squash sq, zero-initialised global
sq0 == [mountpt |-> NULL, session |-> NULL, ll |-> NULL]

hist0 == [nOpen |-> 0, nMkdir |-> 0, nMount |-> 0, nSignal |-> 0, nFork |-> 0,
          openRes |-> "none", mountRes |-> "none", loopRet |-> <<>>,
          pastLoop |-> FALSE, nClean |-> 0, nCleanDone |-> 0,
          nDestroy |-> 0, nUnmount |-> 0, nSqEnd |-> 0, nStops |-> 0,
          workerStatus |-> <<>>, cleanLog |-> <<>>,
          nCalls |-> 1, liveImg |-> 0, liveChan |-> 0]

\* the child's signal disposition and exit handlers (inherited by fork) and
\* what of this module has run in the child
child0 == [sigchld |-> "SIG_DFL", atexitFns |-> <<>>, nSqEnd |-> 0,
           nClean |-> 0, nDestroy |-> 0, nUnmount |-> 0]

ImgIdle ==
  /\ ipc = "idle" /\ ftype = "dir" /\ fdata = <<>> /\ fopenOk = TRUE
  /\ stack = <<0>> /\ magic = <<>> /\ iret = <<>> /\ imsg = "" /\ nOpenFiles = 0

Init ==
  /\ mountdir \in MountDirs
  /\ dirState \in {"absent", "dir", "blocked"}
  /\ pc = "main"
  /\ sq = sq0
  /\ imgOpen = FALSE /\ fsMounted = FALSE
  /\ sigchld = "SIG_DFL" /\ fuseSig = FALSE
  /\ atexitFns = <<>>
  /\ worker = "none" /\ childSq = sq0 /\ workerRet = NULL /\ svcRet = NULL
  /\ child = child0
  /\ sigPending = FALSE /\ sigBlocked = FALSE
  /\ exitCalls = <<>> /\ exitStatus = 0 /\ killed = FALSE
  /\ msg = ""
  /\ hist = hist0
  /\ ImgIdle

----------------------------------------------------------------------------
(* exit(): the first call starts running the exit handlers.  A call made   *)
(* while an earlier exit() is still running (from the signal handler) is   *)
(* undefined: the C library either goes on with the handlers that are left *)
(* and ends with the new status, or faults.                                *)
InExit == exitCalls # <<>>

exit(status, who) ==
  /\ exitCalls' = Append(exitCalls, who)
  /\ \/ /\ pc' = "exiting"
        /\ exitStatus' = status
        /\ killed' = FALSE
     \/ /\ InExit
        /\ pc' = "terminated"
        /\ exitStatus' = status
        /\ killed' = TRUE

\* Te / Ze / FATAL: print the message and exit(EXIT_FAILURE)
fatal(m) ==
  /\ msg' = m
  /\ exit(EXIT_FAILURE, "fatal")

\* the caller registers sq_clean as exit handler before mounting
main_atexit ==
  /\ pc = "main"
  /\ atexitFns' = Append(atexitFns, "sq_clean")
  /\ pc' = "L103"
  /\ UNCHANGED <<mountdir, dirState, sq, imgOpen, fsMounted, sigchld, fuseSig,
                 worker, childSq, workerRet, svcRet, sigPending, sigBlocked,
                 exitCalls, exitStatus, killed, msg, hist>>
  /\ UNCHANGED <<child, ivars>>

\* the test of line 103 inverted (Te written for Ze)
MountptEmpty_inverted(d) == d # ""

\* line 103: mountdir[0] == '\0'
MountptEmpty(d) == d = ""

sq_mount_L103 ==
  /\ pc = "L103"
  /\ IF MountptEmpty(mountdir)
       THEN /\ fatal("mount point can't be empty")
            /\ UNCHANGED sq
       ELSE /\ sq' = [sq EXCEPT !.mountpt = mountdir]
            /\ pc' = "L115"
            /\ UNCHANGED <<exitCalls, exitStatus, killed, msg>>
  /\ UNCHANGED <<mountdir, dirState, imgOpen, fsMounted, sigchld, fuseSig,
                 atexitFns, worker, childSq, workerRet, svcRet, sigPending,
                 sigBlocked, hist>>
  /\ UNCHANGED <<child, ivars>>

\* the check of line 116 left out
OpenFailed_unchecked(ll) == FALSE

\* line 116: Te (sq.ll, ...)
OpenFailed(ll) == ll = NULL

\* lines 115-116: sq.ll = sqfs_ll_open(filepath, 0)
sq_mount_L115 ==
  /\ pc = "L115"
  /\ \E ll \in {NULL, "ll"} :
       /\ sq' = [sq EXCEPT !.ll = ll]
       /\ imgOpen' = (ll # NULL)
       /\ hist' = [hist EXCEPT !.nOpen = @ + 1,
                               !.openRes = IF ll = NULL THEN "err" ELSE "ok",
                               !.liveImg = IF ll = NULL THEN @ ELSE @ + 1]
       /\ IF OpenFailed(ll)
            THEN fatal("failed to open")
            ELSE /\ pc' = "L117"
                 /\ UNCHANGED <<exitCalls, exitStatus, killed, msg>>
  /\ UNCHANGED <<mountdir, dirState, fsMounted, sigchld, fuseSig, atexitFns,
                 worker, childSq, workerRet, svcRet, sigPending, sigBlocked>>
  /\ UNCHANGED <<child, ivars>>

\* line 117: opendir(sq.mountpt) succeeds on a directory that can be opened
opendir(d) == d = "dir"

\* lines 117-118: if (!opendir(...)) Ze (mkdir(...), "failed to create")
sq_mount_L117 ==
  /\ pc = "L117"
  /\ IF opendir(dirState)
       THEN /\ pc' = "L121"
            /\ UNCHANGED <<dirState, hist, exitCalls, exitStatus, killed, msg>>
       ELSE /\ hist' = [hist EXCEPT !.nMkdir = @ + 1]
            /\ \/ /\ dirState = "absent"      \* mkdir returns 0
                  /\ dirState' = "dir"
                  /\ pc' = "L121"
                  /\ UNCHANGED <<exitCalls, exitStatus, killed, msg>>
               \/ /\ fatal("failed to create")  \* mkdir returns -1
                  /\ UNCHANGED dirState
  /\ UNCHANGED <<mountdir, sq, imgOpen, fsMounted, sigchld, fuseSig, atexitFns,
                 worker, childSq, workerRet, svcRet, sigPending, sigBlocked>>
  /\ UNCHANGED <<child, ivars>>

\* the session test of line 122 left out: one message for both causes
MountFailMsg_single(session) == "failed to mount"

\* lines 122-123: which message a failed sqfs_ll_mount gets
MountFailMsg(session) ==
  IF session = NULL THEN "failed to create fuse session" ELSE "failed to mount"

\* lines 121-124: sqfs_ll_mount(&sq.chan, ...)
sq_mount_L121 ==
  /\ pc = "L121"
  /\ \E res \in {"ok", "nosession", "nomount"} :
       /\ sq' = [sq EXCEPT !.session = IF res = "nosession" THEN NULL ELSE "se"]
       /\ fsMounted' = (res = "ok")
       /\ hist' = [hist EXCEPT !.nMount = @ + 1, !.mountRes = res,
                               !.liveChan = IF res = "ok" THEN @ + 1 ELSE @]
       /\ IF res # "ok"
            THEN fatal(MountFailMsg(sq'.session))
            ELSE /\ pc' = "L125"
                 /\ UNCHANGED <<exitCalls, exitStatus, killed, msg>>
  /\ UNCHANGED <<mountdir, dirState, imgOpen, sigchld, fuseSig, atexitFns,
                 worker, childSq, workerRet, svcRet, sigPending, sigBlocked>>
  /\ UNCHANGED <<child, ivars>>

\* line 125 left out: SIGCHLD keeps its default disposition
SigchldHandler_default == "SIG_DFL"

\* line 125: the handler given to signal()
SigchldHandler == "sq_end"

\* line 125: signal(SIGCHLD, sq_end)
sq_mount_L125 ==
  /\ pc = "L125"
  /\ sigchld' = SigchldHandler
  /\ hist' = [hist EXCEPT !.nSignal = @ + 1]
  /\ pc' = "L128"
  /\ UNCHANGED <<mountdir, dirState, sq, imgOpen, fsMounted, fuseSig, atexitFns,
                 worker, childSq, workerRet, svcRet, sigPending, sigBlocked,
                 exitCalls, exitStatus, killed, msg>>
  /\ UNCHANGED <<child, ivars>>

\* line 128 without its Te: the result of fuse_set_signal_handlers is ignored
sq_mount_L128_unchecked ==
  /\ pc = "L128"
  /\ fuseSig' \in BOOLEAN
  /\ pc' = "L132"
  /\ UNCHANGED <<mountdir, dirState, sq, imgOpen, fsMounted, sigchld, atexitFns,
                 worker, childSq, workerRet, svcRet, sigPending, sigBlocked,
                 exitCalls, exitStatus, killed, msg, hist>>
  /\ UNCHANGED <<child, ivars>>

\* line 128: Te (fuse_set_signal_handlers(sq.chan.session) >= 0, ...)
sq_mount_L128 ==
  /\ pc = "L128"
  /\ \/ /\ fuseSig' = TRUE
        /\ pc' = "L132"
        /\ UNCHANGED <<exitCalls, exitStatus, killed, msg>>
     \/ /\ fatal("can't set signal handlers")
        /\ UNCHANGED fuseSig
  /\ UNCHANGED <<mountdir, dirState, sq, imgOpen, fsMounted, sigchld, atexitFns,
                 worker, childSq, workerRet, svcRet, sigPending, sigBlocked, hist>>
  /\ UNCHANGED <<child, ivars>>

\* lines 132-134: fork(); the parent goes on to the loop, the child to line 138
sq_mount_L132 ==
  /\ pc = "L132"
  /\ \/ /\ worker' = "forked"
        /\ childSq' = sq
        /\ child' = [child0 EXCEPT !.sigchld = sigchld, !.atexitFns = atexitFns]
        /\ hist' = [hist EXCEPT !.nFork = @ + 1]
        /\ pc' = "L136"
        /\ UNCHANGED <<exitCalls, exitStatus, killed, msg>>
     \/ /\ fatal("failed to fork process")
        /\ UNCHANGED <<worker, childSq, child, hist>>
  /\ UNCHANGED <<mountdir, dirState, sq, imgOpen, fsMounted, sigchld, fuseSig,
                 atexitFns, workerRet, svcRet, sigPending, sigBlocked>>
  /\ UNCHANGED ivars

\* line 136: the parent calls fuse_session_loop and blocks in it
sq_mount_L136 ==
  /\ pc = "L136"
  /\ pc' = "loop"
  /\ UNCHANGED <<mountdir, dirState, sq, imgOpen, fsMounted, sigchld, fuseSig,
                 atexitFns, worker, childSq, workerRet, svcRet, sigPending,
                 sigBlocked, exitCalls, exitStatus, killed, msg, hist>>
  /\ UNCHANGED <<child, ivars>>

\* the test of line 136 inverted (Ze written for Te)
LoopFailed_inverted(r) == r >= 0

\* line 136: Te ((fuse_session_loop(...) >= 0), ...)
LoopFailed(r) == ~(r >= 0)

\* line 136: fuse_session_loop returns r
loop_return ==
  /\ pc = "loop"
  /\ \E r \in LoopRets :
       /\ hist' = [hist EXCEPT !.loopRet = <<r>>]
       /\ IF LoopFailed(r)
            THEN fatal("failed to create fuse loop")
            ELSE /\ pc' = "L138"
                 /\ UNCHANGED <<exitCalls, exitStatus, killed, msg>>
  /\ UNCHANGED <<mountdir, dirState, sq, imgOpen, fsMounted, sigchld, fuseSig,
                 atexitFns, worker, childSq, workerRet, svcRet, sigPending,
                 sigBlocked>>
  /\ UNCHANGED <<child, ivars>>

\* line 138 in the parent: return sq.mountpt
sq_mount_L138 ==
  /\ pc = "L138"
  /\ svcRet' = sq.mountpt
  /\ hist' = [hist EXCEPT !.pastLoop = TRUE]
  /\ pc' = "returned"
  /\ UNCHANGED <<mountdir, dirState, sq, imgOpen, fsMounted, sigchld, fuseSig,
                 atexitFns, worker, childSq, workerRet, sigPending, sigBlocked,
                 exitCalls, exitStatus, killed, msg>>
  /\ UNCHANGED <<child, ivars>>

\* line 138 in the child: return sq.mountpt
child_return ==
  /\ worker = "forked"
  /\ workerRet' = childSq.mountpt
  /\ worker' = "running"
  /\ UNCHANGED <<mountdir, dirState, pc, sq, imgOpen, fsMounted, sigchld,
                 fuseSig, atexitFns, childSq, svcRet, sigPending, sigBlocked,
                 exitCalls, exitStatus, killed, msg, hist>>
  /\ UNCHANGED <<child, ivars>>

----------------------------------------------------------------------------
\* a fault (invalid pointer handed to a library) ends the process at once
crash ==
  /\ pc' = "terminated"
  /\ killed' = TRUE

\* exit() runs the registered handlers, last registered first, each once,
\* and then ends the process with _exit(status)
run_exit_handlers ==
  /\ pc = "exiting"
  /\ IF atexitFns # <<>>
       THEN /\ atexitFns' = SubSeq(atexitFns, 1, Len(atexitFns) - 1)
            /\ pc' = "clean68"
            /\ hist' = [hist EXCEPT !.nClean = @ + 1]
       ELSE /\ pc' = "terminated"
            /\ UNCHANGED <<atexitFns, hist>>
  /\ UNCHANGED <<mountdir, dirState, sq, imgOpen, fsMounted, sigchld, fuseSig,
                 worker, childSq, workerRet, svcRet, sigPending, sigBlocked,
                 exitCalls, exitStatus, killed, msg>>
  /\ UNCHANGED <<child, ivars>>

\* lines 69 and 71 in the other order: unmount before destroy
sq_clean_next_swapped(p) ==
  CASE p = "clean68" -> "clean71"
    [] p = "clean71" -> "clean69"
    [] p = "clean69" -> "exiting"

\* lines 68-72: the statement that follows each statement of sq_clean
sq_clean_next(p) ==
  CASE p = "clean68" -> "clean69"
    [] p = "clean69" -> "clean71"
    [] p = "clean71" -> "exiting"

\* line 68: fuse_remove_signal_handlers(sq.chan.session)
sq_clean_L68 ==
  /\ pc = "clean68"
  /\ fuseSig' = FALSE
  /\ hist' = [hist EXCEPT !.cleanLog = Append(@, "remove_signal_handlers")]
  /\ pc' = sq_clean_next(pc)
  /\ UNCHANGED <<mountdir, dirState, sq, imgOpen, fsMounted, sigchld, atexitFns,
                 worker, childSq, workerRet, svcRet, sigPending, sigBlocked,
                 exitCalls, exitStatus, killed, msg>>
  /\ UNCHANGED <<child, ivars>>

\* line 69 left out: the image handle is never destroyed
sq_clean_L69_skipped ==
  /\ pc = "clean69"
  /\ pc' = sq_clean_next(pc)
  /\ UNCHANGED <<mountdir, dirState, sq, imgOpen, fsMounted, sigchld, fuseSig,
                 atexitFns, worker, childSq, workerRet, svcRet, sigPending,
                 sigBlocked, exitCalls, exitStatus, killed, msg, hist>>
  /\ UNCHANGED <<child, ivars>>

\* line 69: sqfs_ll_destroy(sq.ll); a null handle is dereferenced
sq_clean_L69 ==
  /\ pc = "clean69"
  /\ IF sq.ll = NULL
       THEN /\ \/ crash
               \/ pc' = sq_clean_next(pc) /\ UNCHANGED killed
            /\ hist' = [hist EXCEPT !.cleanLog = Append(@, "destroy")]
            /\ UNCHANGED imgOpen
       ELSE /\ imgOpen' = FALSE
            /\ hist' = [hist EXCEPT !.nDestroy = @ + 1,
                                    !.cleanLog = Append(@, "destroy"),
                                    !.liveImg = IF @ > 0 THEN @ - 1 ELSE @]
            /\ pc' = sq_clean_next(pc)
            /\ UNCHANGED killed
  /\ UNCHANGED <<mountdir, dirState, sq, fsMounted, sigchld, fuseSig, atexitFns,
                 worker, childSq, workerRet, svcRet, sigPending, sigBlocked,
                 exitCalls, exitStatus, msg>>
  /\ UNCHANGED <<child, ivars>>

\* lines 70-72: sqfs_ll_unmount(&sq.chan, sq.mountpt), then sq_clean returns
sq_clean_L71 ==
  /\ pc = "clean71"
  /\ IF sq.session = NULL
       THEN /\ \/ crash
               \/ pc' = sq_clean_next(pc) /\ UNCHANGED killed
            /\ hist' = [hist EXCEPT !.nCleanDone = IF pc' = "exiting" THEN @ + 1 ELSE @,
                                    !.cleanLog = Append(@, "unmount")]
            /\ UNCHANGED fsMounted
       ELSE /\ fsMounted' = FALSE
            /\ hist' = [hist EXCEPT !.nUnmount = @ + 1,
                                    !.nCleanDone = IF sq_clean_next(pc) = "exiting"
                                                     THEN @ + 1 ELSE @,
                                    !.cleanLog = Append(@, "unmount"),
                                    !.liveChan = IF @ > 0 THEN @ - 1 ELSE @]
            /\ pc' = sq_clean_next(pc)
            /\ UNCHANGED killed
  /\ UNCHANGED <<mountdir, dirState, sq, imgOpen, sigchld, fuseSig, atexitFns,
                 worker, childSq, workerRet, svcRet, sigPending, sigBlocked,
                 exitCalls, exitStatus, msg>>
  /\ UNCHANGED <<child, ivars>>

\* lines 58-62: SIGCHLD is delivered to the service process and runs sq_end,
\* which calls exit(0); the signal stays blocked while its handler runs
sq_end ==
  /\ sigPending /\ ~sigBlocked
  /\ sigchld = "sq_end"
  /\ pc # "terminated"
  /\ sigPending' = FALSE
  /\ sigBlocked' = TRUE
  /\ hist' = [hist EXCEPT !.nSqEnd = @ + 1]
  /\ exit(0, "sq_end")
  /\ UNCHANGED <<mountdir, dirState, sq, imgOpen, fsMounted, sigchld, fuseSig,
                 atexitFns, worker, childSq, workerRet, svcRet, msg>>
  /\ UNCHANGED <<child, ivars>>

\* the worker ends (its program finished or was killed): SIGCHLD to the parent
worker_exit ==
  /\ worker \in {"running", "stopped"}
  /\ \E s \in WorkerStatuses :
       hist' = [hist EXCEPT !.workerStatus = <<s>>]
  /\ worker' = "exited"
  /\ sigPending' = TRUE
  /\ UNCHANGED <<mountdir, dirState, pc, sq, imgOpen, fsMounted, sigchld,
                 fuseSig, atexitFns, childSq, workerRet, svcRet, sigBlocked,
                 exitCalls, exitStatus, killed, msg>>
  /\ UNCHANGED <<child, ivars>>

\* the worker is stopped (SIGSTOP, SIGTSTP): line 125 installs the handler
\* with signal(), without SA_NOCLDSTOP, so the parent gets SIGCHLD for it
worker_stop ==
  /\ worker = "running"
  /\ hist.nStops < MaxStops
  /\ worker' = "stopped"
  /\ hist' = [hist EXCEPT !.nStops = @ + 1]
  /\ sigPending' = TRUE
  /\ UNCHANGED <<mountdir, dirState, pc, sq, imgOpen, fsMounted, sigchld,
                 fuseSig, atexitFns, childSq, workerRet, svcRet, sigBlocked,
                 exitCalls, exitStatus, killed, msg>>
  /\ UNCHANGED <<child, ivars>>

\* the stopped worker is continued (SIGCONT): SIGCHLD to the parent again
worker_cont ==
  /\ worker = "stopped"
  /\ worker' = "running"
  /\ sigPending' = TRUE
  /\ UNCHANGED <<mountdir, dirState, pc, sq, imgOpen, fsMounted, sigchld,
                 fuseSig, atexitFns, childSq, workerRet, svcRet, sigBlocked,
                 exitCalls, exitStatus, killed, msg, hist>>
  /\ UNCHANGED <<child, ivars>>

\* the worker replaces its program (exec): handlers of signals go back to the
\* default and the exit handlers are gone
worker_exec ==
  /\ worker = "running"
  /\ child.sigchld # "SIG_DFL" \/ child.atexitFns # <<>>
  /\ child' = [child EXCEPT !.sigchld = "SIG_DFL", !.atexitFns = <<>>]
  /\ UNCHANGED <<mountdir, dirState, pc, sq, imgOpen, fsMounted, sigchld,
                 fuseSig, atexitFns, worker, childSq, workerRet, svcRet,
                 sigPending, sigBlocked, exitCalls, exitStatus, killed, msg, hist>>
  /\ UNCHANGED ivars

\* lines 58-62 in the worker: a child of the worker changes state, and the
\* disposition of SIGCHLD set at line 125 was inherited by the fork of line
\* 132: sq_end runs in the worker and calls exit(0)
worker_sq_end ==
  /\ worker = "running"
  /\ child.sigchld = "sq_end"
  /\ child' = [child EXCEPT !.nSqEnd = @ + 1]
  /\ worker' = "exiting"
  /\ UNCHANGED <<mountdir, dirState, pc, sq, imgOpen, fsMounted, sigchld,
                 fuseSig, atexitFns, childSq, workerRet, svcRet, sigPending,
                 sigBlocked, exitCalls, exitStatus, killed, msg, hist>>
  /\ UNCHANGED ivars

\* the worker calls exit() itself
worker_exit_call ==
  /\ worker = "running"
  /\ worker' = "exiting"
  /\ UNCHANGED <<mountdir, dirState, pc, sq, imgOpen, fsMounted, sigchld,
                 fuseSig, atexitFns, childSq, child, workerRet, svcRet,
                 sigPending, sigBlocked, exitCalls, exitStatus, killed, msg, hist>>
  /\ UNCHANGED ivars

\* lines 66-72 in the worker: exit() in the worker runs the exit handlers it
\* inherited; sq_clean works on the worker's copy of sq and unmounts the
\* mount point; then the worker has ended and its parent gets SIGCHLD
worker_exit_handlers ==
  /\ worker = "exiting"
  /\ IF child.atexitFns # <<>>
       THEN /\ child' = [child EXCEPT !.atexitFns = <<>>,
                                      !.nClean = @ + 1,
                                      !.nDestroy = IF childSq.ll # NULL THEN @ + 1 ELSE @,
                                      !.nUnmount = IF childSq.session # NULL THEN @ + 1 ELSE @]
            /\ fsMounted' = IF childSq.session # NULL THEN FALSE ELSE fsMounted
       ELSE UNCHANGED <<child, fsMounted>>
  /\ worker' = "exited"
  /\ hist' = [hist EXCEPT !.workerStatus = <<0>>]
  /\ sigPending' = TRUE
  /\ UNCHANGED <<mountdir, dirState, pc, sq, imgOpen, sigchld, fuseSig,
                 atexitFns, childSq, workerRet, svcRet, sigBlocked, exitCalls,
                 exitStatus, killed, msg>>
  /\ UNCHANGED ivars

\* the parent, returned from sq_mount, later leaves through exit() itself
caller_exit ==
  /\ pc = "returned"
  /\ \E s \in CallerStatuses : exit(s, "caller")
  /\ UNCHANGED <<mountdir, dirState, sq, imgOpen, fsMounted, sigchld, fuseSig,
                 atexitFns, worker, childSq, workerRet, svcRet, sigPending,
                 sigBlocked, msg, hist>>
  /\ UNCHANGED <<child, ivars>>

\* lines 101-104: the process, returned from sq_mount, calls sq_mount again;
\* nothing in sq_mount looks at what sq already holds
caller_remount ==
  /\ pc = "returned"
  /\ hist.nCalls < MaxCalls
  /\ mountdir' \in MountDirs
  /\ hist' = [hist EXCEPT !.nCalls = @ + 1]
  /\ pc' = "L103"
  /\ UNCHANGED <<dirState, sq, imgOpen, fsMounted, sigchld, fuseSig, atexitFns,
                 worker, childSq, workerRet, svcRet, sigPending, sigBlocked,
                 exitCalls, exitStatus, killed, msg>>
  /\ UNCHANGED <<child, ivars>>

\* the steps the service process takes by itself (it is never blocked in them)
ServiceStep ==
  \/ main_atexit \/ sq_mount_L103 \/ sq_mount_L115 \/ sq_mount_L117
  \/ sq_mount_L121 \/ sq_mount_L125 \/ sq_mount_L128 \/ sq_mount_L132
  \/ sq_mount_L136 \/ sq_mount_L138
  \/ run_exit_handlers \/ sq_clean_L68 \/ sq_clean_L69 \/ sq_clean_L71

Next ==
  \/ main_atexit
  \/ sq_mount_L103
  \/ sq_mount_L115
  \/ sq_mount_L117
  \/ sq_mount_L121
  \/ sq_mount_L125
  \/ sq_mount_L128
  \/ sq_mount_L132
  \/ sq_mount_L136
  \/ loop_return
  \/ sq_mount_L138
  \/ child_return
  \/ run_exit_handlers
  \/ sq_clean_L68
  \/ sq_clean_L69
  \/ sq_clean_L71
  \/ sq_end
  \/ worker_exit
  \/ worker_stop
  \/ worker_cont
  \/ worker_exec
  \/ worker_sq_end
  \/ worker_exit_call
  \/ worker_exit_handlers
  \/ caller_exit

Spec == Init /\ [][Next]_vars

\* a process that may call sq_mount more than once
RemountNext ==
  \/ Next
  \/ caller_remount

RemountSpec == Init /\ [][RemountNext]_vars

\* The kernel schedules the service process and delivers a pending signal to it.
LiveSpec == Init /\ [][Next]_vars /\ WF_vars(ServiceStep) /\ WF_vars(sq_end)

----------------------------------------------------------------------------
(* imgdir_p *)

\* bound: the longest file given to imgdir_p
MaxFileLen == 5

\* 'h', 'q', 's' and NUL
Bytes == {0, 104, 113, 115}

\* line 95: the string literal "hsqs", with its terminator
hsqs == <<104, 115, 113, 115, 0>>

RECURSIVE FilesOfLen(_)
FilesOfLen(n) ==
  IF n = 0 THEN {<<>>}
  ELSE {Append(f, b) : f \in FilesOfLen(n - 1), b \in Bytes}

Files == UNION {FilesOfLen(n) : n \in 0..MaxFileLen}

ImgInit ==
  /\ mountdir = "/mnt" /\ dirState = "dir"
  /\ pc = "main"
  /\ sq = sq0
  /\ imgOpen = FALSE /\ fsMounted = FALSE
  /\ sigchld = "SIG_DFL" /\ fuseSig = FALSE
  /\ atexitFns = <<>>
  /\ worker = "none" /\ childSq = sq0 /\ workerRet = NULL /\ svcRet = NULL
  /\ child = child0
  /\ sigPending = FALSE /\ sigBlocked = FALSE
  /\ exitCalls = <<>> /\ exitStatus = 0 /\ killed = FALSE
  /\ msg = ""
  /\ hist = hist0
  /\ ipc = "L81"
  /\ ftype \in {"nostat", "dir", "reg", "fifo"}
  /\ fdata \in (IF ftype = "reg" THEN Files ELSE {<<>>})
  /\ fopenOk \in (IF ftype = "reg" THEN BOOLEAN ELSE {TRUE})
  /\ stack \in (IF ftype = "reg" THEN {<<b>> : b \in Bytes} ELSE {<<0>>})
  /\ magic = <<>>
  /\ iret = <<>>
  /\ imsg = ""
  /\ nOpenFiles = 0

\* line 81: Te (stat(path, &read) == 0, "can't stat %s", path)
imgdir_p_L81 ==
  /\ ipc = "L81"
  /\ IF ftype = "nostat"
       THEN ipc' = "fatal" /\ imsg' = "can't stat"
       ELSE ipc' = "L82" /\ UNCHANGED imsg
  /\ UNCHANGED <<ftype, fdata, fopenOk, stack, magic, iret, nOpenFiles>>
  /\ UNCHANGED mvars

\* the mode tests of lines 82 and 85 mixed up: S_ISREG used for S_ISDIR
S_ISDIR_reg(t) == t = "reg"

\* line 82: S_ISDIR(read.st_mode)
S_ISDIR(t) == t = "dir"

\* lines 82-83: a directory: return 0
imgdir_p_L82 ==
  /\ ipc = "L82"
  /\ IF S_ISDIR(ftype)
       THEN ipc' = "ret" /\ iret' = <<0>>
       ELSE ipc' = "L85" /\ UNCHANGED iret
  /\ UNCHANGED <<ftype, fdata, fopenOk, stack, magic, imsg, nOpenFiles>>
  /\ UNCHANGED mvars

\* lines 85-86: not a regular file: return -1
imgdir_p_L85 ==
  /\ ipc = "L85"
  /\ IF ftype # "reg"
       THEN ipc' = "ret" /\ iret' = <<-1>>
       ELSE ipc' = "L88" /\ UNCHANGED iret
  /\ UNCHANGED <<ftype, fdata, fopenOk, stack, magic, imsg, nOpenFiles>>
  /\ UNCHANGED mvars

\* lines 88-89: file = fopen(path, "rb"); Te ((file != NULL), ...)
imgdir_p_L88 ==
  /\ ipc = "L88"
  /\ IF fopenOk
       THEN ipc' = "L90" /\ nOpenFiles' = nOpenFiles + 1 /\ UNCHANGED imsg
       ELSE ipc' = "fatal" /\ imsg' = "can't open" /\ UNCHANGED nOpenFiles
  /\ UNCHANGED <<ftype, fdata, fopenOk, stack, magic, iret>>
  /\ UNCHANGED mvars

\* line 90: Te ((fread(magic, 4, 1, file) == 1), ...): one item of 4 bytes
imgdir_p_L90 ==
  /\ ipc = "L90"
  /\ IF Len(fdata) >= 4
       THEN ipc' = "L95" /\ magic' = SubSeq(fdata, 1, 4) /\ UNCHANGED imsg
       ELSE ipc' = "fatal" /\ magic' = fdata /\ imsg' = "can't read"
  /\ UNCHANGED <<ftype, fdata, fopenOk, stack, iret, nOpenFiles>>
  /\ UNCHANGED mvars

\* strcmp(a, b) on the bytes at a and at b, from index i on: it stops at the
\* first difference or at a NUL present in both
RECURSIVE strcmp_from(_, _, _)
strcmp_from(a, b, i) ==
  IF a[i] # b[i] THEN (IF a[i] < b[i] THEN -1 ELSE 1)
  ELSE IF a[i] = 0 THEN 0
  ELSE strcmp_from(a, b, i + 1)

\* line 95: strcmp(magic, "hsqs"): magic holds 4 bytes and no terminator, so
\* the comparison goes on into the bytes that follow it in memory
strcmp_magic(m, after) == strcmp_from(m \o after, hsqs, 1)

\* the test of line 95 inverted: != 0 for == 0
MagicClass_inverted(c) == IF c # 0 THEN <<1>> ELSE <<-1>>

\* lines 95-97: if (strcmp(...) == 0) return 1; return -1;
MagicClass(c) == IF c = 0 THEN <<1>> ELSE <<-1>>

\* lines 95-97: return 1 when the comparison gives 0, else -1
imgdir_p_L95 ==
  /\ ipc = "L95"
  /\ iret' = MagicClass(strcmp_magic(magic, stack))
  /\ ipc' = "ret"
  /\ UNCHANGED <<ftype, fdata, fopenOk, stack, magic, imsg, nOpenFiles>>
  /\ UNCHANGED mvars

ImgNext ==
  \/ imgdir_p_L81
  \/ imgdir_p_L82
  \/ imgdir_p_L85
  \/ imgdir_p_L88
  \/ imgdir_p_L90
  \/ imgdir_p_L95

ImgSpec == ImgInit /\ [][ImgNext]_vars

----------------------------------------------------------------------------
(* Properties *)

ExitPcs == {"exiting", "clean68", "clean69", "clean71", "terminated"}

Terminated == pc = "terminated"

\* C1: in the service process the teardown of sq_clean (sqfs_ll_destroy, then
\* sqfs_ll_unmount) runs exactly once per process lifetime: never twice, and
\* never zero times when the process has ended after a successful mount,
\* whichever way exit was reached and also when SIGCHLD arrives during an exit.
C1_TeardownExactlyOnce ==
  /\ hist.nClean <= 1 /\ hist.nDestroy <= 1 /\ hist.nUnmount <= 1
  /\ (Terminated /\ hist.mountRes = "ok")
       => (hist.nDestroy = 1 /\ hist.nUnmount = 1)

\* C2: whenever sq_end has fired in the service process, the worker has
\* terminated, whatever child-status event (exit, stop, continue) raised SIGCHLD.
C2_SqEndOnlyAfterWorkerExit ==
  hist.nSqEnd > 0 => worker = "exited"

C4_CleanedBeforeTerminated ==
  (Terminated /\ hist.mountRes = "ok")
    => (hist.nCleanDone >= 1 /\ ~fsMounted /\ ~imgOpen)

\* C5: after a successful mount and fork exactly one process returns from
\* sq_mount: the worker, with the requested mount directory; the service
\* process never returns, whatever fuse_session_loop returns.
C5_OnlyWorkerReturns ==
  hist.nFork > 0 =>
    /\ svcRet = NULL
    /\ ~hist.pastLoop
    /\ worker \in {"running", "stopped", "exited"} => workerRet = mountdir

\* the service process ended fatally on the loop's return, without going on
LoopFatal ==
  /\ msg = "failed to create fuse loop"
  /\ exitCalls # <<>> /\ exitCalls[1] = "fatal"
  /\ pc \in ExitPcs
  /\ ~hist.pastLoop /\ svcRet = NULL

C7_EmptyMountdirFatal ==
  mountdir = "" =>
    /\ hist.nOpen = 0 /\ hist.nMkdir = 0 /\ hist.nMount = 0
    /\ hist.nSignal = 0 /\ hist.nFork = 0
    /\ sq = sq0 /\ ~imgOpen /\ ~fsMounted
    /\ sigchld = "SIG_DFL" /\ ~fuseSig /\ worker = "none"
    /\ pc \notin {"main", "L103"} =>
         /\ msg = "mount point can't be empty"
         /\ exitCalls = <<"fatal">>
         /\ pc \in ExitPcs
         /\ exitStatus = EXIT_FAILURE

C7_Witness == mountdir = "" /\ Terminated /\ msg = "mount point can't be empty"

\* C8: when sqfs_ll_open fails, the process ends fatally, mkdir is never
\* called and sqfs_ll_mount is never attempted.
C8_OpenFailureFatal ==
  hist.openRes = "err" =>
    /\ msg = "failed to open"
    /\ exitCalls = <<"fatal">>
    /\ pc \in ExitPcs
    /\ hist.nMkdir = 0 /\ hist.nMount = 0
    /\ sq.session = NULL /\ ~fsMounted

C8_Witness == hist.openRes = "err" /\ Terminated /\ dirState = "absent"

\* C9: a failed sqfs_ll_mount gives "failed to create fuse session" exactly
\* when no session object was produced and "failed to mount" exactly when a
\* session exists but the mount step failed; in both cases the process ends
\* without forking.
C9_MountFailureMessages ==
  /\ msg = "failed to create fuse session"
       <=> (hist.mountRes = "nosession" /\ sq.session = NULL)
  /\ msg = "failed to mount"
       <=> (hist.mountRes = "nomount" /\ sq.session # NULL)
  /\ hist.mountRes \in {"nosession", "nomount"} =>
       /\ pc \in ExitPcs /\ exitCalls = <<"fatal">>
       /\ hist.nFork = 0 /\ worker = "none"

C9_Witness ==
  /\ hist.mountRes = "nomount" /\ sq.session # NULL
  /\ msg = "failed to mount" /\ Terminated

\* C10: for every regular file of at least 4 bytes that starts with
\* 'h','s','q','s', imgdir_p returns 1, whatever follows in the file and
\* whatever follows the magic buffer in memory.
C10_MagicGivesImage ==
  (ipc = "ret" /\ ftype = "reg" /\ Len(fdata) >= 4
     /\ SubSeq(fdata, 1, 4) = SubSeq(hsqs, 1, 4))
    => iret = <<1>>

\* C11: for a regular file imgdir_p returns -1 when the file has at least 4
\* bytes and its first 4 bytes differ from the signature; when the file is
\* shorter than 4 bytes the call ends with the fatal read error and returns
\* no classification.
C11_OtherOrReadError ==
  ftype = "reg" =>
    /\ (ipc = "ret" /\ Len(fdata) >= 4 /\ SubSeq(fdata, 1, 4) # SubSeq(hsqs, 1, 4))
         => iret = <<-1>>
    /\ Len(fdata) < 4 =>
         /\ iret = <<>> /\ ipc # "ret"
         /\ (fopenOk /\ ipc \notin {"L81", "L82", "L85", "L88", "L90"})
              => (ipc = "fatal" /\ imsg = "can't read")

C11_Witness ==
  /\ ftype = "reg" /\ fopenOk /\ Len(fdata) = 3 /\ fdata = SubSeq(hsqs, 1, 3)
  /\ ipc = "fatal" /\ imsg = "can't read"

\* C12: a path that stat can inspect gives 0 when it is a directory and -1
\* when it is neither directory nor regular file, in both cases without the
\* path being opened or read; when stat fails the call is fatal and returns
\* no classification.
C12_DirAndOtherWithoutOpen ==
  /\ ftype \in {"dir", "fifo"} =>
       /\ nOpenFiles = 0 /\ magic = <<>> /\ ipc \notin {"L88", "L90", "L95", "fatal"}
       /\ ipc = "ret" => iret = (IF ftype = "dir" THEN <<0>> ELSE <<-1>>)
  /\ ftype = "nostat" =>
       /\ iret = <<>> /\ nOpenFiles = 0 /\ ipc \in {"L81", "fatal"}
       /\ ipc = "fatal" => imsg = "can't stat"

C12_Witness == ftype = "dir" /\ ipc = "ret" /\ iret = <<0>> /\ nOpenFiles = 0

\* C17: when imgdir_p has returned a classification for a regular file, the
\* file handle it opened is closed again (as many handles open as before the
\* call) and the global session sq is unchanged.
C17_HandleClosedOnReturn ==
  (ftype = "reg" /\ ipc = "ret") => (nOpenFiles = 0 /\ sq = sq0)

\* the effects of sq_clean, in the order of lines 68, 69, 71
CleanOrder == <<"remove_signal_handlers", "destroy", "unmount">>

\* C13: every run of sq_clean performs its effects in strict order: the FUSE
\* signal handlers are removed first, then the image handle is destroyed, then
\* the file system is unmounted; what has been done so far is always a prefix
\* of that order, and a finished sq_clean has done all three.
C13_CleanInOrder ==
  /\ Len(hist.cleanLog) <= 3
  /\ hist.cleanLog = SubSeq(CleanOrder, 1, Len(hist.cleanLog))
  /\ hist.nCleanDone > 0 => hist.cleanLog = CleanOrder
  /\ (hist.nUnmount > 0 /\ hist.mountRes = "ok") => (hist.nDestroy > 0 /\ ~fuseSig)

C13_Witness ==
  /\ hist.nCleanDone = 1 /\ hist.cleanLog = CleanOrder
  /\ hist.nDestroy = 1 /\ hist.nUnmount = 1 /\ hist.mountRes = "ok"

\* the fatal errors of sq_mount that come after the image was opened
FatalAfterOpen ==
  {"failed to create", "failed to create fuse session", "failed to mount",
   "can't set signal handlers", "failed to fork process"}

\* C14: after each fatal error of sq_mount that follows a successful open
\* (mkdir, session creation, mount, signal handlers, fork) the process goes to
\* its end without entering the service loop, and it has ended only with the
\* opened image handle destroyed and no file system left mounted.
C14_FatalAfterOpenReleases ==
  msg \in FatalAfterOpen =>
    /\ hist.openRes = "ok" /\ exitCalls = <<"fatal">>
    /\ pc \in ExitPcs
    /\ hist.nFork = 0 /\ worker = "none" /\ hist.loopRet = <<>>
    /\ Terminated => (hist.nDestroy = 1 /\ ~imgOpen /\ ~fsMounted)

C14_Witness ==
  /\ msg = "can't set signal handlers" /\ Terminated
  /\ hist.mountRes = "ok" /\ hist.nDestroy = 1 /\ hist.nUnmount = 1

\* C15: after the fork the worker never runs this module's lifecycle logic
\* on the mount session: neither sq_end nor sq_clean runs in it and it never
\* destroys the image handle or unmounts, whatever happens in the worker
\* (SIGCHLD from children of its own, its own exit).
C15_WorkerNeverRunsLifecycle ==
  /\ child.nSqEnd = 0 /\ child.nClean = 0
  /\ child.nDestroy = 0 /\ child.nUnmount = 0

\* C16: sq_clean only ever runs on a fully populated session: whenever it is
\* running, the session had reached SERVING (the fork was done) and both sq.ll
\* and sq.chan.session are valid.
C16_CleanOnlyAfterServing ==
  pc \in {"clean68", "clean69", "clean71"} =>
    (hist.nFork > 0 /\ sq.ll # NULL /\ sq.session # NULL)

\* The state of the Mount Session, read off the position of the service
\* process: EMPTY until the mount point is recorded (line 104), OPENING_IMAGE
\* at line 115, MOUNTING from line 117 up to the fork, SERVING in the parent
\* after the fork, UNMOUNTING while sq_clean runs after that, CLOSED once it
\* has finished; ERROR is the end by a fatal error before the fork.
SessionState ==
  IF pc \in {"main", "L103"} THEN "EMPTY"
  ELSE IF pc = "L115" THEN "OPENING_IMAGE"
  ELSE IF pc \in {"L117", "L121", "L125", "L128", "L132"} THEN "MOUNTING"
  ELSE IF pc \in {"L136", "loop", "L138", "returned"} THEN "SERVING"
  ELSE IF hist.nFork = 0 THEN "ERROR"
  ELSE IF hist.nCleanDone > 0 THEN "CLOSED"
  ELSE IF hist.nClean > 0 THEN "UNMOUNTING"
  ELSE "SERVING"

SessionEdges ==
  { <<"EMPTY", "OPENING_IMAGE">>, <<"OPENING_IMAGE", "MOUNTING">>,
    <<"MOUNTING", "SERVING">>, <<"SERVING", "UNMOUNTING">>,
    <<"UNMOUNTING", "CLOSED">>,
    <<"EMPTY", "ERROR">>, <<"OPENING_IMAGE", "ERROR">>, <<"MOUNTING", "ERROR">> }

\* every setup step of sq_mount has succeeded
SetupDone ==
  /\ mountdir # "" /\ sq.mountpt = mountdir
  /\ hist.openRes = "ok" /\ sq.ll # NULL /\ imgOpen
  /\ dirState = "dir"
  /\ hist.mountRes = "ok" /\ sq.session # NULL
  /\ sigchld = "sq_end"
  /\ fuseSig
  /\ hist.nFork = 1 /\ worker # "none"

\* a later setup step has been made only when the earlier ones had succeeded
SetupInOrder ==
  /\ hist.nOpen > 0 => sq.mountpt = mountdir
  /\ hist.nMkdir > 0 => hist.openRes = "ok"
  /\ hist.nMount > 0 => (hist.openRes = "ok" /\ dirState = "dir")
  /\ hist.nSignal > 0 => hist.mountRes = "ok"
  /\ fuseSig => hist.nSignal > 0
  /\ hist.nFork > 0 => (hist.nSignal > 0 /\ (hist.nClean = 0 => fuseSig))

\* C18: the service loop is entered only in the parent of the fork and only
\* after every setup step has succeeded, in the order mount point, image,
\* mount directory, channel, SIGCHLD handler, FUSE signal handlers, fork; the
\* session passes its states in the order EMPTY, OPENING_IMAGE, MOUNTING,
\* SERVING, UNMOUNTING, CLOSED, none skipped or revisited (a fatal error before
\* the fork leaves the chain for the error end).
C18_SetupOrderAndStates ==
  /\ [](pc \in {"L136", "loop"} => SetupDone)
  /\ []SetupInOrder
  /\ [][SessionState' = SessionState
          \/ <<SessionState, SessionState'>> \in SessionEdges]_vars

C18_Witness ==
  /\ Terminated /\ SessionState = "CLOSED" /\ exitCalls = <<"sq_end">>
  /\ hist.nFork = 1 /\ hist.mountRes = "ok"

\* C19: mkdir is attempted exactly when the mount directory does not exist:
\* a directory that exists never leads to a creation attempt or to the fatal
\* "failed to create"; a missing one is created before the session is
\* established; a failed creation is fatal with no session established.
C19_MkdirOnlyWhenAbsent ==
  /\ dirState = "blocked" => (hist.nMkdir = 0 /\ msg # "failed to create")
  /\ hist.nMkdir <= 1
  /\ hist.nMount > 0 => dirState = "dir"
  /\ msg = "failed to create" =>
       (hist.nMount = 0 /\ sq.session = NULL /\ pc \in ExitPcs)

\* C20: at most one live Mount Session per process: whatever sequence of
\* sq_mount calls the process makes, it never holds more than one opened
\* image handle or more than one mounted channel at a time.
C20_OneLiveSession ==
  hist.liveImg <= 1 /\ hist.liveChan <= 1

====
